---- MODULE Spec2Model ----
(***************************************************************************)
(* kobo-highlights: the query/grouping engine (fetchBooks), the format     *)
(* registry, the dispatcher (main) and the Markdown and Notion exporters.  *)
(* Strings are sequences of one-character strings; Go's string order is    *)
(* the bytewise order given by CharCode.                                   *)
(***************************************************************************)
EXTENDS Integers, Sequences, FiniteSets, TLC

VARIABLES
    pc,         \* position of the running process
    kobo,       \* the source database: [file, bookmarks]
    limit,      \* --limit
    dbConn,     \* "none" | "open" | "closed": the *sql.DB of fetchBooks
    opens,      \* number of sql.Open calls of the run
    rows,       \* the *sql.Rows of the main query: the joined rows, in result order
    rowIdx,     \* number of rows consumed by rows.Next()
    grouped,    \* map title -> Book
    order,      \* titles in first-seen order, then sorted
    books,      \* the []Book returned by fetchBooks, handed to Export
    fetchErr,   \* error returned by fetchBooks ("" = nil)
    formatRegistry, \* map name -> *FormatFactory
    regLog,     \* the RegisterFormat calls made so far, in call order
    got,        \* what the last GetFormatFactory call returned
    names,      \* what the last ListFormatNames call returned
    exportErr,  \* error returned by Export (<<>> = nil)
    bookIdx,    \* the book the range loop of Export is at (1-based)
    run,        \* number of the current run of the program
    faults,     \* failures the environment has injected so far
    succeededBefore, \* an earlier run's Export returned nil
    client,     \* the NotionClient: [titlePropName, resolvedTitle]
    svc,        \* the Notion database: [titleProp, hasAuthor, pages]
    pageID,     \* pageResp.ID: index of the created page in svc.pages, 0 = none
    blocks,     \* blocks built for the current book
    batchAt,    \* i of the append loop
    reqs,       \* HTTP requests the current run has issued, in order
    mdDir,      \* MarkdownFormat.Dir
    fs,         \* the file system: [dirs, files], files maps a path to its content
    mdFile,     \* path of the file f that Export has open, <<>> = none
    hIdx,       \* the highlight the inner loop of Export is at
    fsLog,      \* file-system calls of the current run: [book, op, path, ok]
    flags,      \* the command line: [listFormats, format, markdownDir, notionToken, notionDatabase]
    stdout,     \* lines printed to standard output
    stderr,     \* lines printed to standard error
    exporter,   \* the Format that factory.Build returned: "nil", "markdown", "notion"
    mainErr,    \* the error the Action returned (<<>> = nil)
    sanArg,     \* the string handed to sanitizeFilename
    sanRet      \* what sanitizeFilename returned: for sanArg, then for its own result

fetchVars == <<kobo, limit, dbConn, opens, rows, rowIdx, grouped, order, books, fetchErr>>

regVars == <<formatRegistry, regLog, got, names>>

exportVars == <<exportErr, bookIdx, run, faults, succeededBefore>>

notionVars == <<client, svc, pageID, blocks, batchAt, reqs>>

mdVars == <<mdDir, fs, mdFile, hIdx, fsLog>>

mainVars == <<flags, stdout, stderr, exporter, mainErr>>

sanVars == <<sanArg, sanRet>>

vars == <<pc, fetchVars, regVars, exportVars, notionVars, mdVars, mainVars, sanVars>>

(***************************** strings *************************************)

\* Byte value of each character the model uses.
CharCode ==
    (" " :> 32) @@ ("(" :> 40) @@ (")" :> 41) @@ ("-" :> 45) @@ ("." :> 46) @@
    ("0" :> 48) @@ ("1" :> 49) @@ ("2" :> 50) @@ ("9" :> 57) @@
    ("A" :> 65) @@ ("B" :> 66) @@ ("X" :> 88) @@ ("Y" :> 89) @@
    ("a" :> 97) @@ ("d" :> 100) @@ ("k" :> 107) @@ ("q" :> 113) @@ ("r" :> 114)

\* a < b for Go strings (and for SQLite's BINARY collation): bytewise.
RECURSIVE StrLess(_, _)
StrLess(a, b) ==
    IF b = <<>> THEN FALSE
    ELSE IF a = <<>> THEN TRUE
    ELSE IF Head(a) = Head(b) THEN StrLess(Tail(a), Tail(b))
    ELSE CharCode[Head(a)] < CharCode[Head(b)]

\* SQL NULL in a text column.
NULL == <<"NULL">>

Min(a, b) == IF a < b THEN a ELSE b

(************************** the source database ****************************)

MaxRows == 3
MaxLimit == 2

\* content table: ContentID, Title, Attribution.  Two volumes share a title
\* and differ in attribution (one of them NULL).
ContentTable ==
    { [ContentID |-> <<"1">>, Title |-> <<"a">>, Attribution |-> <<"X">>],
      [ContentID |-> <<"2">>, Title |-> <<"a">>, Attribution |-> NULL],
      [ContentID |-> <<"9">>, Title |-> <<"B">>, Attribution |-> <<"Y">>] }

\* Where a bookmark lies in its book: ContentID, StartContainerPath, StartOffset.
Positions ==
    { [ContentID |-> <<"k", "1">>, StartContainerPath |-> <<"k", ".", "9", ".", "1">>, StartOffset |-> 5],
      [ContentID |-> <<"k", "1">>, StartContainerPath |-> <<"k", ".", "1", "0", ".", "1">>, StartOffset |-> 2],
      [ContentID |-> <<"k", "2">>, StartContainerPath |-> <<"k", ".", "1", ".", "1">>, StartOffset |-> 0] }

\* Text and DateCreated of a bookmark the query selects and Scan decodes.
TextDates ==
    { [Text |-> <<"q">>, DateCreated |-> <<"d", "1">>],
      [Text |-> <<"r">>, DateCreated |-> <<"d", "2">>] }

\* ... of a bookmark with a blank text, and of one with a NULL date.
OddTextDates ==
    { [Text |-> <<" ">>, DateCreated |-> <<"d", "1">>],
      [Text |-> <<"q">>, DateCreated |-> NULL] }

\* The place that comes first in document order.
FirstPosition == CHOOSE p \in Positions : p.StartOffset = 5

Bookmark(c, p, k) ==
    [VolumeID |-> c.ContentID, Text |-> k.Text, DateCreated |-> k.DateCreated,
     ContentID |-> p.ContentID, StartContainerPath |-> p.StartContainerPath,
     StartOffset |-> p.StartOffset]

\* Bookmark table rows the database may hold.
BookmarkPool ==
    { Bookmark(c, p, k) : c \in ContentTable, p \in Positions, k \in TextDates }
    \cup { Bookmark(c, FirstPosition, k) : c \in ContentTable, k \in OddTextDates }

RECURSIVE SubsetsUpTo(_, _)
SubsetsUpTo(P, k) ==
    IF k = 0 THEN {{}}
    ELSE LET prev == SubsetsUpTo(P, k - 1)
         IN  prev \cup {S \cup {x} : S \in prev, x \in P}

\* The file at --kobo-db.
KoboFiles ==
    { [file |-> f, bookmarks |-> {}] : f \in {"missing", "inaccessible", "notdb", "notable"} }
    \cup { [file |-> "ok", bookmarks |-> S] : S \in SubsetsUpTo(BookmarkPool, MaxRows) }

Limits == (-1) .. MaxLimit

(****************************** the query **********************************)

\* INSTR(s, c): 1-based place of the first c in s, 0 if there is none.
RECURSIVE Instr(_, _)
Instr(s, c) ==
    IF s = <<>> THEN 0
    ELSE IF Head(s) = c THEN 1
    ELSE LET r == Instr(Tail(s), c) IN IF r = 0 THEN 0 ELSE r + 1

IsDigit(c) == c \in {"0", "1", "2", "9"}

DigitVal(c) == CharCode[c] - 48

\* CAST(s AS INTEGER): the value of the longest prefix of digits, 0 if none.
RECURSIVE CastInteger(_, _)
CastInteger(s, acc) ==
    IF s = <<>> \/ ~IsDigit(Head(s)) THEN acc
    ELSE CastInteger(Tail(s), 10 * acc + DigitVal(Head(s)))

\* CAST(SUBSTR(p, INSTR(p,'.')+1, INSTR(SUBSTR(p, INSTR(p,'.')+1), '.')-1) AS INTEGER)
\* SUBSTR with a length of 0 or -1 yields no digit, hence 0.
ChapterIndex(p) ==
    LET i == Instr(p, ".")
        rest == SubSeq(p, i + 1, Len(p))
        j == Instr(rest, ".")
    IN  IF j <= 1 THEN 0 ELSE CastInteger(SubSeq(rest, 1, j - 1), 0)

\* TRIM(s): SQLite strips spaces at both ends.
RECURSIVE TrimLeft(_)
TrimLeft(s) == IF s # <<>> /\ Head(s) = " " THEN TrimLeft(Tail(s)) ELSE s

RECURSIVE TrimRight(_)
TrimRight(s) ==
    IF s # <<>> /\ s[Len(s)] = " " THEN TrimRight(SubSeq(s, 1, Len(s) - 1)) ELSE s

SqlTrim(s) == TrimRight(TrimLeft(s))

Coalesce(x, d) == IF x = NULL THEN d ELSE x

\* WHERE b.Text IS NOT NULL AND LENGTH(TRIM(b.Text)) > 0
Selected(b) == b.Text # NULL /\ Len(SqlTrim(b.Text)) > 0

\* FROM Bookmark b JOIN content c ON c.ContentID = b.VolumeID WHERE ...
\* with the selected columns c.Title, COALESCE(c.Attribution, ''), b.Text,
\* b.DateCreated; bm is the Bookmark row the ORDER BY reads its keys from.
Joined(bookmarks) ==
    UNION { { [Title |-> c.Title, Author |-> Coalesce(c.Attribution, <<>>),
               Text |-> b.Text, DateCreated |-> b.DateCreated, bm |-> b]
              : c \in {y \in ContentTable : y.ContentID = b.VolumeID} }
            : b \in {x \in bookmarks : Selected(x)} }

\* ORDER BY c.Title, b.ContentID, <chapter index>, b.StartOffset: x before y.
RowLess(x, y) ==
    IF x.Title # y.Title THEN StrLess(x.Title, y.Title)
    ELSE IF x.bm.ContentID # y.bm.ContentID THEN StrLess(x.bm.ContentID, y.bm.ContentID)
    ELSE IF ChapterIndex(x.bm.StartContainerPath) # ChapterIndex(y.bm.StartContainerPath)
         THEN ChapterIndex(x.bm.StartContainerPath) < ChapterIndex(y.bm.StartContainerPath)
    ELSE x.bm.StartOffset < y.bm.StartOffset

\* Every order of S the ORDER BY allows (rows with equal keys come in any order).
RECURSIVE SortedSeqs(_)
SortedSeqs(S) ==
    IF S = {} THEN {<<>>}
    ELSE UNION { {<<m>> \o t : t \in SortedSeqs(S \ {m})}
                 : m \in {x \in S : \A y \in S : ~RowLess(y, x)} }

\* A query that never appends the LIMIT clause.
ApplyLimitDropped(s, n) == s

\* LIMIT ?  (only appended when limit > 0)
ApplyLimit(s, n) == IF n > 0 THEN SubSeq(s, 1, Min(n, Len(s))) ELSE s

(************************** the format registry ****************************)

EmptyMap == [t \in {} |-> {}]

MaxRegs == 3

\* "markdown", "Markdown" and "notion"
NameMarkdown == <<"m", "a", "r", "k", "d", "o", "w", "n">>
NameMarkdownCap == <<"M", "a", "r", "k", "d", "o", "w", "n">>
NameNotion == <<"n", "o", "t", "i", "o", "n">>

FormatNames == {NameMarkdown, NameMarkdownCap, NameNotion}

\* *FormatFactory values: Name, and which Build function it carries.
Factories == { [Name |-> n, Build |-> b] : n \in FormatNames, b \in {"markdown", "notion"} }

MarkdownFactory == [Name |-> NameMarkdown, Build |-> "markdown"]
NotionFactory == [Name |-> NameNotion, Build |-> "notion"]

\* A registry whose first registration under a name stays.
RegistryPutFirstWins(reg, f) == reg @@ (f.Name :> f)

\* formatRegistry[f.Name] = f
RegistryPut(reg, f) == (f.Name :> f) @@ reg

\* f, ok := formatRegistry[name]
RegistryGet(reg, name) ==
    IF name \in DOMAIN reg THEN [f |-> reg[name], ok |-> TRUE]
    ELSE [f |-> "nil", ok |-> FALSE]

\* Every sequence that holds each element of S once (Go ranges over a map in any order).
RECURSIVE Orderings(_)
Orderings(S) ==
    IF S = {} THEN {<<>>}
    ELSE UNION { {<<x>> \o t : t \in Orderings(S \ {x})} : x \in S }

\* The registry once the init functions of the formats package have run.
RegistryAtStartup ==
    /\ formatRegistry = RegistryPut(RegistryPut(EmptyMap, MarkdownFactory), NotionFactory)
    /\ regLog = <<MarkdownFactory, NotionFactory>>
    /\ got = [name |-> <<>>, f |-> "nil", ok |-> FALSE, at |-> 0]
    /\ names = [list |-> <<>>, at |-> 0]

RegisterFormat(f) ==
    /\ pc = "registry"
    /\ Len(regLog) < MaxRegs
    /\ formatRegistry' = RegistryPut(formatRegistry, f)
    /\ regLog' = Append(regLog, f)
    /\ UNCHANGED <<pc, got, names, fetchVars, sanVars, exportVars, notionVars, mdVars, mainVars>>

GetFormatFactory(name) ==
    /\ pc = "registry"
    /\ got' = [name |-> name, f |-> RegistryGet(formatRegistry, name).f,
               ok |-> RegistryGet(formatRegistry, name).ok, at |-> Len(regLog)]
    /\ UNCHANGED <<pc, formatRegistry, regLog, names, fetchVars, sanVars, exportVars, notionVars, mdVars, mainVars>>

ListFormatNames ==
    /\ pc = "registry"
    /\ \E l \in Orderings(DOMAIN formatRegistry) :
          names' = [list |-> l, at |-> Len(regLog)]
    /\ UNCHANGED <<pc, formatRegistry, regLog, got, fetchVars, sanVars, exportVars, notionVars, mdVars, mainVars>>

FetchIdle ==
    /\ kobo = [file |-> "missing", bookmarks |-> {}]
    /\ limit = 0
    /\ dbConn = "none"
    /\ opens = 0
    /\ rows = <<>>
    /\ rowIdx = 0
    /\ grouped = EmptyMap
    /\ order = <<>>
    /\ books = <<>>
    /\ fetchErr = ""

ExportIdle ==
    /\ exportErr = <<>>
    /\ bookIdx = 0
    /\ run = 1
    /\ faults = 0
    /\ succeededBefore = FALSE

NotionIdle ==
    /\ client = [titlePropName |-> "Title", resolvedTitle |-> FALSE]
    /\ svc = [titleProp |-> "Title", hasAuthor |-> TRUE, pages |-> <<>>]
    /\ pageID = 0
    /\ blocks = <<>>
    /\ batchAt = 0
    /\ reqs = <<>>

MarkdownIdle ==
    /\ mdDir = <<>>
    /\ fs = [dirs |-> {}, files |-> EmptyMap]
    /\ mdFile = <<>>
    /\ hIdx = 0
    /\ fsLog = <<>>

\* No call of sanitizeFilename on its own is in progress.
SanitizeIdle == sanArg = <<>> /\ sanRet = <<>>

\* No command line is being processed: the exporter was built by an earlier step.
MainIdle ==
    /\ flags = [listFormats |-> FALSE, format |-> <<>>, markdownDir |-> <<>>,
                notionToken |-> <<>>, notionDatabase |-> <<>>]
    /\ stdout = <<>>
    /\ stderr = <<>>
    /\ exporter = "nil"
    /\ mainErr = <<>>

InitRegistry ==
    /\ pc = "registry"
    /\ formatRegistry = EmptyMap
    /\ regLog = <<>>
    /\ got = [name |-> <<>>, f |-> "nil", ok |-> FALSE, at |-> 0]
    /\ names = [list |-> <<>>, at |-> 0]
    /\ FetchIdle
    /\ ExportIdle
    /\ NotionIdle
    /\ MarkdownIdle
    /\ MainIdle
    /\ SanitizeIdle

NextRegistry ==
    \/ \E f \in Factories : RegisterFormat(f)
    \/ \E n \in FormatNames : GetFormatFactory(n)
    \/ ListFormatNames

SpecRegistry == InitRegistry /\ [][NextRegistry]_vars

(***************************** fetchBooks **********************************)

\* What fetchBooks leaves alone.
notFetch == <<regVars, exportVars, notionVars, mdVars, mainVars, sanVars>>

\* rows.Scan(&title, &author, &text, &date): a NULL cannot be stored in a string.
ScanOK(r) == r.Title # NULL /\ r.Author # NULL /\ r.Text # NULL /\ r.DateCreated # NULL

\* A grouping loop that stores the author of every row, so the last one stays.
GroupRowLastAuthor(g, o, r) ==
    LET g1 == (r.Title :> [Title |-> r.Title, Author |-> r.Author,
                           Highlights |-> IF r.Title \in DOMAIN g
                                          THEN g[r.Title].Highlights ELSE <<>>]) @@ g
        o1 == IF r.Title \in DOMAIN g THEN o ELSE Append(o, r.Title)
        h  == [Text |-> r.Text, Date |-> r.DateCreated]
    IN  << [g1 EXCEPT ![r.Title].Highlights = Append(@, h)], o1 >>

\* A grouping loop that puts each highlight in front of the earlier ones.
GroupRowPrepend(g, o, r) ==
    LET g1 == IF r.Title \in DOMAIN g THEN g
              ELSE (r.Title :> [Title |-> r.Title, Author |-> r.Author, Highlights |-> <<>>]) @@ g
        o1 == IF r.Title \in DOMAIN g THEN o ELSE Append(o, r.Title)
        h  == [Text |-> r.Text, Date |-> r.DateCreated]
    IN  << [g1 EXCEPT ![r.Title].Highlights = <<h>> \o @], o1 >>

\* One pass of the grouping loop over a scanned row: the pair <<grouped, order>>.
GroupRow(g, o, r) ==
    LET g1 == IF r.Title \in DOMAIN g THEN g
              ELSE (r.Title :> [Title |-> r.Title, Author |-> r.Author, Highlights |-> <<>>]) @@ g
        o1 == IF r.Title \in DOMAIN g THEN o ELSE Append(o, r.Title)
        h  == [Text |-> r.Text, Date |-> r.DateCreated]
    IN  << [g1 EXCEPT ![r.Title].Highlights = Append(@, h)], o1 >>

\* sort.Strings
RECURSIVE InsertSorted(_, _)
InsertSorted(s, x) ==
    IF s = <<>> THEN <<x>>
    ELSE IF StrLess(x, Head(s)) THEN <<x>> \o s
    ELSE <<Head(s)>> \o InsertSorted(Tail(s), x)

RECURSIVE SortStrings(_)
SortStrings(s) ==
    IF s = <<>> THEN <<>> ELSE InsertSorted(SortStrings(SubSeq(s, 1, Len(s) - 1)), s[Len(s)])

\* A return with an error that skips the deferred db.Close().
FetchFailLeavesOpen(msg) ==
    /\ fetchErr' = msg
    /\ books' = <<>>
    /\ dbConn' = dbConn
    /\ pc' = "fetch_ret"

\* return with an error: the deferred rows.Close() and db.Close() run.
FetchFail(msg) ==
    /\ fetchErr' = msg
    /\ books' = <<>>
    /\ dbConn' = IF dbConn = "open" THEN "closed" ELSE dbConn
    /\ pc' = "fetch_ret"

\* os.Stat(dbPath)
FetchStat ==
    /\ pc = "fetch_stat"
    /\ IF kobo.file = "missing" THEN FetchFail("database file not found")
       ELSE IF kobo.file = "inaccessible" THEN FetchFail("unable to stat database file")
       ELSE /\ pc' = "fetch_open"
            /\ UNCHANGED <<fetchErr, books, dbConn>>
    /\ UNCHANGED <<kobo, limit, opens, rows, rowIdx, grouped, order>>
    /\ UNCHANGED notFetch

\* sql.Open("sqlite3", "file:...?mode=ro&_busy_timeout=5000"); defer db.Close()
FetchOpen ==
    /\ pc = "fetch_open"
    /\ dbConn' = "open"
    /\ opens' = opens + 1
    /\ pc' = "fetch_schema"
    /\ UNCHANGED <<kobo, limit, rows, rowIdx, grouped, order, books, fetchErr>>
    /\ UNCHANGED notFetch

\* SELECT name FROM sqlite_master WHERE type='table' AND name='Bookmark'
FetchSchema ==
    /\ pc = "fetch_schema"
    /\ IF kobo.file = "notable" THEN FetchFail("required table 'Bookmark' not found")
       ELSE IF kobo.file = "notdb" THEN FetchFail("failed to inspect schema")
       ELSE /\ pc' = "fetch_query"
            /\ UNCHANGED <<fetchErr, books, dbConn>>
    /\ UNCHANGED <<kobo, limit, opens, rows, rowIdx, grouped, order>>
    /\ UNCHANGED notFetch

\* db.Query(baseQuery [+ " LIMIT ?"]); defer rows.Close()
FetchQuery ==
    /\ pc = "fetch_query"
    /\ \E s \in SortedSeqs(Joined(kobo.bookmarks)) :
          /\ rows' = ApplyLimit(s, limit)
          /\ rowIdx' = 0
          /\ grouped' = EmptyMap
          /\ order' = <<>>
          /\ pc' = "fetch_rows"
    /\ UNCHANGED <<kobo, limit, dbConn, opens, books, fetchErr>>
    /\ UNCHANGED notFetch

\* db.Query returns an error
FetchQueryFail ==
    /\ pc = "fetch_query"
    /\ FetchFail("query failed")
    /\ UNCHANGED <<kobo, limit, opens, rows, rowIdx, grouped, order>>
    /\ UNCHANGED notFetch

\* rows.Next() is true: scan the row and group it, or log and skip it.
FetchRow ==
    /\ pc = "fetch_rows"
    /\ rowIdx < Len(rows)
    /\ rowIdx' = rowIdx + 1
    /\ LET r == rows[rowIdx + 1]
       IN  IF ScanOK(r)
           THEN /\ grouped' = GroupRow(grouped, order, r)[1]
                /\ order' = GroupRow(grouped, order, r)[2]
           ELSE UNCHANGED <<grouped, order>>
    /\ UNCHANGED <<pc, kobo, limit, dbConn, opens, rows, books, fetchErr>>
    /\ UNCHANGED notFetch

\* rows.Next() is false and rows.Err() is not nil
FetchRowsErr ==
    /\ pc = "fetch_rows"
    /\ FetchFail("row iteration error")
    /\ UNCHANGED <<kobo, limit, opens, rows, rowIdx, grouped, order>>
    /\ UNCHANGED notFetch

\* rows.Next() is false at the end: sort.Strings(order), build books, return.
FetchFinish ==
    /\ pc = "fetch_rows"
    /\ rowIdx = Len(rows)
    /\ order' = SortStrings(order)
    /\ books' = [i \in 1 .. Len(order) |-> grouped[SortStrings(order)[i]]]
    /\ fetchErr' = ""
    /\ dbConn' = "closed"
    /\ pc' = "fetch_ret"
    /\ UNCHANGED <<kobo, limit, opens, rows, rowIdx, grouped>>
    /\ UNCHANGED notFetch

InitFetch ==
    /\ pc = "fetch_stat"
    /\ kobo \in KoboFiles
    /\ limit \in Limits
    /\ dbConn = "none"
    /\ opens = 0
    /\ rows = <<>>
    /\ rowIdx = 0
    /\ grouped = EmptyMap
    /\ order = <<>>
    /\ books = <<>>
    /\ fetchErr = ""
    /\ RegistryAtStartup
    /\ ExportIdle
    /\ NotionIdle
    /\ MarkdownIdle
    /\ MainIdle
    /\ SanitizeIdle

NextFetch ==
    \/ FetchStat
    \/ FetchOpen
    \/ FetchSchema
    \/ FetchQuery
    \/ FetchQueryFail
    \/ FetchRow
    \/ FetchRowsErr
    \/ FetchFinish

SpecFetch == InitFetch /\ [][NextFetch]_vars

(*************************** the Notion exporter ***************************)

MaxRuns == 3
MaxFaults == 2
BatchSize == 100

\* What the Notion exporter leaves alone.
notNotion == <<fetchVars, sanVars, regVars, mdVars, mainVars>>

\* fmt.Sprintf("%s (%s)", title, author), or the title alone
NotionTitle(b) ==
    IF b.Author # <<>> THEN b.Title \o <<" ", "(">> \o b.Author \o <<")">> ELSE b.Title

QuoteBlock(h) == [type |-> "quote", content |-> h]

ParagraphBlock == [type |-> "paragraph", content |-> <<>>]

\* Blocks built without the blank paragraphs between the quotes.
BuildBlocksNoBlank(hs) == [k \in 1 .. Len(hs) |-> QuoteBlock(hs[k].Text)]

\* A quote block per highlight, a blank paragraph after each but the last.
BuildBlocks(hs) ==
    [k \in 1 .. (2 * Len(hs) - 1) |->
        IF k % 2 = 1 THEN QuoteBlock(hs[(k + 1) \div 2].Text) ELSE ParagraphBlock]

\* A batch end that lets one block too many through.
BatchEndOffByOne(i, n) == IF i + BatchSize + 1 > n THEN n ELSE i + BatchSize + 1

\* end := i + 100; if end > len(blocks) { end = len(blocks) }
BatchEnd(i, n) == IF i + BatchSize > n THEN n ELSE i + BatchSize

\* An HTTP request as the log keeps it.
\* resp: how it was answered.
Request(method, target, title, prop, withAuthor, batch, resp) ==
    [book |-> bookIdx, method |-> method, target |-> target, title |-> title,
     prop |-> prop, withAuthor |-> withAuthor, batch |-> batch, resp |-> resp]

IsWrite(r) == r.target \in {"pages", "children"}

\* Status of POST /v1/pages when the service handles the request: 400 for a
\* property the database does not have.
CreateStatus(prop, withAuthor) ==
    IF prop # svc.titleProp THEN 400
    ELSE IF withAuthor /\ ~svc.hasAuthor THEN 400
    ELSE 200

\* An existence check that never finds a page.
PageExistsNever(title) == FALSE

\* The truthful answer to the title filter: is there a page with this title?
PageExists(title) == \E k \in 1 .. Len(svc.pages) : svc.pages[k].title = title

\* fmt.Errorf("notion export '%s': %w", b.Title, err)
NotionExportError(title, detail) ==
    <<"n", "o", "t", "i", "o", "n", " ", "e", "x", "p", "o", "r", "t", " ", "'">> \o title \o <<"'", ":", " ">> \o <<detail>>

\* EnsureBookPage returns err: Export wraps it and returns.
EnsureFail(detail) ==
    /\ exportErr' = NotionExportError(books[bookIdx].Title, detail)
    /\ pc' = "export_ret"
    /\ UNCHANGED bookIdx

\* EnsureBookPage returns nil: the range loop goes on.
EnsureOK ==
    /\ bookIdx' = bookIdx + 1
    /\ pc' = "n_book"
    /\ UNCHANGED exportErr

Fault(isFault) ==
    /\ isFault => faults < MaxFaults
    /\ faults' = IF isFault THEN faults + 1 ELSE faults

\* Export: the nil-client check, then the range loop starts.
NotionExport ==
    /\ pc = "notion_export"
    /\ bookIdx' = 1
    /\ pc' = "n_book"
    /\ UNCHANGED <<exportErr, run, faults, succeededBefore, notionVars, notNotion>>

\* for _, b := range books: call EnsureBookPage, or return nil after the last.
NotionBook ==
    /\ pc = "n_book"
    /\ IF bookIdx > Len(books)
       THEN /\ exportErr' = <<>>
            /\ pc' = "export_ret"
       ELSE /\ pc' = IF client.resolvedTitle THEN "n_query" ELSE "n_resolve1"
            /\ UNCHANGED exportErr
    /\ pageID' = 0
    /\ blocks' = <<>>
    /\ batchAt' = 0
    /\ UNCHANGED <<bookIdx, run, faults, succeededBefore, client, svc, reqs, notNotion>>

\* resolveTitlePropertyName, called from EnsureBookPage ("n_resolve1") and again
\* from pageExistsByTitle ("n_resolve2") while resolvedTitle is false.
NotionResolve(ok) ==
    /\ pc \in {"n_resolve1", "n_resolve2"}
    /\ Fault(~ok)
    /\ reqs' = Append(reqs, Request("GET", "database", <<>>, "", FALSE, <<>>,
                                    IF ok THEN "ok" ELSE "error"))
    /\ client' = IF ok
                 THEN [titlePropName |-> IF svc.titleProp # "Title" THEN svc.titleProp
                                         ELSE client.titlePropName,
                       resolvedTitle |-> TRUE]
                 ELSE client
    /\ pc' = IF ok \/ pc = "n_resolve2" THEN "n_query" ELSE "n_resolve2"
    /\ UNCHANGED <<exportErr, bookIdx, run, succeededBefore, svc, pageID, blocks, batchAt, notNotion>>

QueryOutcomes == {"answer", "transport", "status", "decode"}

\* An EnsureBookPage that goes on to create the page whatever the check found.
AfterExistsAlwaysCreate(exists) ==
    /\ pc' = "n_create"
    /\ UNCHANGED <<exportErr, bookIdx>>

\* if exists { return nil }
AfterExists(exists) ==
    IF exists THEN EnsureOK
    ELSE /\ pc' = "n_create"
         /\ UNCHANGED <<exportErr, bookIdx>>

\* pageExistsByTitle(notionTitle) and the branch on its result.
NotionQuery(o) ==
    LET failed == o # "answer" \/ client.titlePropName # svc.titleProp
        exists == PageExists(NotionTitle(books[bookIdx]))
    IN
    /\ pc = "n_query"
    /\ Fault(o # "answer")
    /\ reqs' = Append(reqs, Request("POST", "query", NotionTitle(books[bookIdx]),
                                    client.titlePropName, FALSE, <<>>,
                                    IF failed THEN "error"
                                    ELSE IF exists THEN "match" ELSE "nomatch"))
    /\ IF o = "transport" THEN EnsureFail("check existing page: perform query")
       ELSE IF o = "status" \/ client.titlePropName # svc.titleProp
            THEN EnsureFail("check existing page: query API error")
       ELSE IF o = "decode" THEN EnsureFail("check existing page: decode query response")
       ELSE AfterExists(exists)
    /\ UNCHANGED <<run, succeededBefore, client, svc, pageID, blocks, batchAt, notNotion>>

\* A fallback that does not look at the author.
ShouldRetryAnyAuthor(status, author) == status = 400

\* if resp.StatusCode == 400 && author != ""
ShouldRetry(status, author) == status = 400 /\ author # <<>>

CreateOutcomes == {"handled", "lost", "timeout", "s400", "s401", "s500", "decode", "noid"}

\* The page a create request makes.
NewPage(withAuthor) ==
    [title |-> NotionTitle(books[bookIdx]),
     author |-> IF withAuthor THEN books[bookIdx].Author ELSE <<>>,
     blocks |-> <<>>]

\* POST /v1/pages and what follows up to the append loop.  retry: this is the
\* second request, without the Author property.
CreateRequest(o, retry) ==
    LET withAuthor == ~retry /\ books[bookIdx].Author # <<>>
        status == IF o = "s400" THEN 400 ELSE IF o = "s401" THEN 401
                  ELSE IF o = "s500" THEN 500
                  ELSE CreateStatus(client.titlePropName, withAuthor)
        created == o = "timeout" \/ (o \notin {"lost", "timeout"} /\ status = 200)
        bs == BuildBlocks(books[bookIdx].Highlights)
    IN  /\ Fault(o # "handled")
        /\ o \in {"timeout", "decode", "noid"} => CreateStatus(client.titlePropName, withAuthor) = 200
        /\ reqs' = Append(reqs, Request("POST", "pages", NotionTitle(books[bookIdx]),
                                        client.titlePropName, withAuthor, <<>>,
                                        IF o \in {"lost", "timeout", "decode", "noid"} THEN o
                                        ELSE IF status = 200 THEN "ok"
                                        ELSE IF status = 400 THEN "400"
                                        ELSE IF status = 401 THEN "401" ELSE "500"))
        /\ svc' = IF created THEN [svc EXCEPT !.pages = Append(@, NewPage(withAuthor))] ELSE svc
        /\ IF o \in {"lost", "timeout"}
           THEN /\ EnsureFail(IF retry THEN "retry notion request (without Author)"
                              ELSE "perform notion request")
                /\ UNCHANGED <<pageID, blocks, batchAt>>
           ELSE IF ~retry /\ ShouldRetry(status, books[bookIdx].Author)
           THEN /\ pc' = "n_retry"
                /\ UNCHANGED <<exportErr, bookIdx, pageID, blocks, batchAt>>
           ELSE IF status >= 300
           THEN /\ EnsureFail("notion create page error")
                /\ UNCHANGED <<pageID, blocks, batchAt>>
           ELSE IF o = "decode"
           THEN /\ EnsureFail("decode page create response")
                /\ UNCHANGED <<pageID, blocks, batchAt>>
           ELSE IF o = "noid"
           THEN /\ EnsureFail("no page ID returned from Notion")
                /\ UNCHANGED <<pageID, blocks, batchAt>>
           ELSE /\ pageID' = Len(svc.pages) + 1
                /\ blocks' = bs
                /\ batchAt' = 0
                /\ IF Len(bs) = 0 THEN EnsureOK
                   ELSE /\ pc' = "n_append"
                        /\ UNCHANGED <<exportErr, bookIdx>>
        /\ UNCHANGED <<run, succeededBefore, client, notNotion>>

NotionCreate(o) ==
    /\ pc = "n_create"
    /\ CreateRequest(o, FALSE)

\* resp.StatusCode == 400 && author != "": once more without the Author property
NotionRetry(o) ==
    /\ pc = "n_retry"
    /\ CreateRequest(o, TRUE)

AppendOutcomes == {"ok", "lost", "timeout", "status"}

\* One pass of the append loop: PATCH /v1/blocks/<pageID>/children with a batch.
NotionAppend(o) ==
    LET end == BatchEnd(batchAt, Len(blocks))
        batch == SubSeq(blocks, batchAt + 1, end)
    IN  /\ pc = "n_append"
        /\ batchAt < Len(blocks)
        /\ Fault(o # "ok")
        /\ reqs' = Append(reqs, Request("PATCH", "children", <<>>, "", FALSE, batch,
                                        IF o = "ok" THEN "ok" ELSE "error"))
        /\ svc' = IF o \in {"ok", "timeout"}
                  THEN [svc EXCEPT !.pages[pageID].blocks = @ \o batch]
                  ELSE svc
        /\ IF o \in {"lost", "timeout"}
           THEN EnsureFail("perform append request") /\ UNCHANGED batchAt
           ELSE IF o = "status"
           THEN EnsureFail("notion append error") /\ UNCHANGED batchAt
           ELSE /\ batchAt' = batchAt + BatchSize
                /\ IF batchAt + BatchSize < Len(blocks)
                   THEN UNCHANGED <<pc, exportErr, bookIdx>>
                   ELSE EnsureOK
        /\ UNCHANGED <<run, succeededBefore, client, pageID, blocks, notNotion>>

\* The program is run again on the same books: a new process, a new client.
NotionRerun ==
    /\ pc = "export_ret"
    /\ run < MaxRuns
    /\ run' = run + 1
    /\ succeededBefore' = (succeededBefore \/ exportErr = <<>>)
    /\ client' = [titlePropName |-> "Title", resolvedTitle |-> FALSE]
    /\ reqs' = <<>>
    /\ exportErr' = <<>>
    /\ bookIdx' = 0
    /\ pageID' = 0
    /\ blocks' = <<>>
    /\ batchAt' = 0
    /\ pc' = "notion_export"
    /\ UNCHANGED <<faults, svc, notNotion>>

Highlight(text, date) == [Text |-> text, Date |-> date]

\* Books as fetchBooks returns them: ascending titles, one highlight or more.
\* The first two have the same page title "A (B)".
BookAB == [Title |-> <<"A">>, Author |-> <<"B">>,
           Highlights |-> <<Highlight(<<"q">>, <<"d", "1">>), Highlight(<<"r">>, <<"d", "2">>)>>]
BookA_B == [Title |-> <<"A", " ", "(", "B", ")">>, Author |-> <<>>,
            Highlights |-> <<Highlight(<<"q">>, <<"d", "1">>)>>]
BookX == [Title |-> <<"X">>, Author |-> <<>>,
          Highlights |-> <<Highlight(<<"q">>, <<"d", "1">>), Highlight(<<"r">>, <<"d", "2">>),
                           Highlight(<<"q">>, <<"d", "2">>)>>]

RECURSIVE SubSeqs(_)
SubSeqs(s) ==
    IF s = <<>> THEN {<<>>}
    ELSE LET rest == SubSeqs(Tail(s)) IN rest \cup {<<Head(s)>> \o t : t \in rest}

BookLists == SubSeqs(<<BookAB, BookA_B, BookX>>)

NotionDatabases ==
    { [titleProp |-> t, hasAuthor |-> a, pages |-> <<>>] : t \in {"Title", "Name"}, a \in BOOLEAN }

InitNotion ==
    /\ pc = "notion_export"
    /\ kobo = [file |-> "ok", bookmarks |-> {}]
    /\ limit = 0
    /\ dbConn = "closed"
    /\ opens = 1
    /\ rows = <<>>
    /\ rowIdx = 0
    /\ grouped = EmptyMap
    /\ order = <<>>
    /\ books \in BookLists
    /\ fetchErr = ""
    /\ RegistryAtStartup
    /\ ExportIdle
    /\ client = [titlePropName |-> "Title", resolvedTitle |-> FALSE]
    /\ svc \in NotionDatabases
    /\ pageID = 0
    /\ blocks = <<>>
    /\ batchAt = 0
    /\ reqs = <<>>
    /\ MarkdownIdle
    /\ MainIdle
    /\ SanitizeIdle

MaxHighlights == 250

Digits == <<"0", "1", "2", "3", "4", "5", "6", "7", "8", "9">>

\* strconv.Itoa, to tell the highlights of a long book apart
RECURSIVE Decimal(_)
Decimal(k) ==
    IF k < 10 THEN <<Digits[k + 1]>> ELSE Decimal(k \div 10) \o <<Digits[(k % 10) + 1]>>

\* A book with n highlights.
LongBook(n) ==
    [Title |-> <<"A">>, Author |-> <<"B">>,
     Highlights |-> [k \in 1 .. n |-> Highlight(Decimal(k), <<"d", "1">>)]]

\* Export of one book of any length up to MaxHighlights.
InitBatch ==
    /\ pc = "notion_export"
    /\ kobo = [file |-> "ok", bookmarks |-> {}]
    /\ limit = 0
    /\ dbConn = "closed"
    /\ opens = 1
    /\ rows = <<>>
    /\ rowIdx = 0
    /\ grouped = EmptyMap
    /\ order = <<>>
    /\ books \in {<<LongBook(n)>> : n \in 1 .. MaxHighlights}
    /\ fetchErr = ""
    /\ RegistryAtStartup
    /\ ExportIdle
    /\ client = [titlePropName |-> "Title", resolvedTitle |-> FALSE]
    /\ svc \in {d \in NotionDatabases : d.titleProp = "Title"}
    /\ pageID = 0
    /\ blocks = <<>>
    /\ batchAt = 0
    /\ reqs = <<>>
    /\ MarkdownIdle
    /\ MainIdle
    /\ SanitizeIdle

NextNotion ==
    \/ NotionExport
    \/ NotionBook
    \/ \E ok \in BOOLEAN : NotionResolve(ok)
    \/ \E o \in QueryOutcomes : NotionQuery(o)
    \/ \E o \in CreateOutcomes : NotionCreate(o)
    \/ \E o \in CreateOutcomes : NotionRetry(o)
    \/ \E o \in AppendOutcomes : NotionAppend(o)
    \/ NotionRerun

SpecNotion == InitNotion /\ [][NextNotion]_vars

\* One run of the exporter.
NextBatch ==
    \/ NotionExport
    \/ NotionBook
    \/ \E ok \in BOOLEAN : NotionResolve(ok)
    \/ \E o \in QueryOutcomes : NotionQuery(o)
    \/ \E o \in CreateOutcomes : NotionCreate(o)
    \/ \E o \in CreateOutcomes : NotionRetry(o)
    \/ \E o \in AppendOutcomes : NotionAppend(o)

SpecBatch == InitBatch /\ [][NextBatch]_vars

(************************** the Markdown exporter **************************)

\* What the Markdown exporter leaves alone.
notMarkdown == <<fetchVars, sanVars, regVars, notionVars, mainVars>>

\* unicode.IsSpace, for the characters of the model
IsSpace(c) == c \in {" ", "\n", "\t"}

RECURSIVE TrimSpaceLeft(_)
TrimSpaceLeft(s) == IF s # <<>> /\ IsSpace(Head(s)) THEN TrimSpaceLeft(Tail(s)) ELSE s

RECURSIVE TrimSpaceRight(_)
TrimSpaceRight(s) ==
    IF s # <<>> /\ IsSpace(s[Len(s)]) THEN TrimSpaceRight(SubSeq(s, 1, Len(s) - 1)) ELSE s

\* strings.TrimSpace
TrimSpace(s) == TrimSpaceRight(TrimSpaceLeft(s))

\* The replacer without its last pair ("|", "-").
ReplaceCharKeepsPipe(c) ==
    IF c \in {"/", "\\", ":", "*"} THEN <<"-">>
    ELSE IF c \in {"?", "\"", "<", ">"} THEN <<>>
    ELSE <<c>>

\* The strings.NewReplacer of sanitizeFilename, for one character.
ReplaceChar(c) ==
    IF c \in {"/", "\\", ":", "*", "|"} THEN <<"-">>
    ELSE IF c \in {"?", "\"", "<", ">"} THEN <<>>
    ELSE <<c>>

RECURSIVE ReplaceUnsafe(_)
ReplaceUnsafe(s) == IF s = <<>> THEN <<>> ELSE ReplaceChar(Head(s)) \o ReplaceUnsafe(Tail(s))

\* strings.Fields: the maximal runs of non-space characters of s.
RECURSIVE Fields(_, _)
Fields(s, cur) ==
    IF s = <<>> THEN (IF cur = <<>> THEN <<>> ELSE <<cur>>)
    ELSE IF IsSpace(Head(s)) THEN (IF cur = <<>> THEN <<>> ELSE <<cur>>) \o Fields(Tail(s), <<>>)
    ELSE Fields(Tail(s), Append(cur, Head(s)))

\* strings.Join(fs, sep)
RECURSIVE Join(_, _)
Join(fields, sep) ==
    IF fields = <<>> THEN <<>>
    ELSE IF Len(fields) = 1 THEN fields[1]
    ELSE fields[1] \o sep \o Join(Tail(fields), sep)

sanitizeFilename(s) ==
    LET r == Join(Fields(ReplaceUnsafe(TrimSpace(s)), <<>>), <<"-">>)
    IN  IF r = <<>> THEN <<"b", "o", "o", "k">> ELSE r

\* filepath.Join(m.Dir, filename+".md") for a book
BookPath(b) ==
    mdDir \o <<"/">> \o
    (IF b.Author # <<>> THEN sanitizeFilename(b.Title \o <<"-">> \o b.Author)
     ELSE sanitizeFilename(b.Title)) \o <<".", "m", "d">>

\* "# %s (%s)\n\n" or "# %s\n\n"
HeadingLine(b) ==
    IF b.Author # <<>> THEN <<"#", " ">> \o b.Title \o <<" ", "(">> \o b.Author \o <<")", "\n", "\n">>
    ELSE <<"#", " ">> \o b.Title \o <<"\n", "\n">>

\* strings.ReplaceAll(text, "\n", " ")
NewlinesToSpaces(s) == [k \in 1 .. Len(s) |-> IF s[k] = "\n" THEN " " ELSE s[k]]

\* The quote line with the newlines of the text kept.
QuoteLineKeepsNewlines(text) == <<">", " ">> \o text \o <<"\n", "\n">>

\* "> %s\n\n"
QuoteLine(text) == <<">", " ">> \o NewlinesToSpaces(text) \o <<"\n", "\n">>

\* A call on the file system as the log keeps it.
FsCall(op, path, ok) == [book |-> bookIdx, op |-> op, path |-> path, ok |-> ok]

\* fmt.Errorf("create file %s: %w", path, err), with the *PathError of os.Create
CreateFileError(path) ==
    <<"c", "r", "e", "a", "t", "e", " ", "f", "i", "l", "e", " ">> \o path \o <<":", " ", "o", "p", "e", "n", " ">> \o path \o <<":", " ", "permission denied">>

\* fmt.Errorf("close file %s: %w", path, err)
CloseFileError(path) ==
    <<"c", "l", "o", "s", "e", " ", "f", "i", "l", "e", " ">> \o path \o <<":", " ", "c", "l", "o", "s", "e", " ">> \o path \o <<":", " ", "input/output error">>

\* Export up to the range loop: the Dir check and os.MkdirAll.
MdExport(ok) ==
    /\ pc = "md_export"
    /\ IF mdDir = <<>>
       THEN /\ ok
            /\ exportErr' = <<"markdown format: empty directory">>
            /\ pc' = "export_ret"
            /\ UNCHANGED <<bookIdx, fs, fsLog, faults>>
       ELSE /\ Fault(~ok)
            /\ fsLog' = Append(fsLog, FsCall("mkdir", mdDir, ok))
            /\ IF ok
               THEN /\ fs' = [fs EXCEPT !.dirs = @ \cup {mdDir}]
                    /\ bookIdx' = 1
                    /\ pc' = "md_book"
                    /\ UNCHANGED exportErr
               ELSE /\ exportErr' = <<"create dir: mkdir">>
                    /\ pc' = "export_ret"
                    /\ UNCHANGED <<fs, bookIdx>>
    /\ UNCHANGED <<run, succeededBefore, mdDir, mdFile, hIdx, notMarkdown>>

\* for _, b := range books: os.Create(path), or return nil after the last book.
MdCreate(ok) ==
    /\ pc = "md_book"
    /\ IF bookIdx > Len(books)
       THEN /\ ok
            /\ exportErr' = <<>>
            /\ pc' = "export_ret"
            /\ UNCHANGED <<fs, fsLog, mdFile, faults>>
       ELSE /\ Fault(~ok)
            /\ fsLog' = Append(fsLog, FsCall("create", BookPath(books[bookIdx]), ok))
            /\ IF ok
               THEN /\ fs' = [fs EXCEPT !.files = (BookPath(books[bookIdx]) :> <<>>) @@ @]
                    /\ mdFile' = BookPath(books[bookIdx])
                    /\ pc' = "md_heading"
                    /\ UNCHANGED exportErr
               ELSE /\ exportErr' = CreateFileError(BookPath(books[bookIdx]))
                    /\ pc' = "export_ret"
                    /\ UNCHANGED <<fs, mdFile>>
    /\ UNCHANGED <<bookIdx, run, succeededBefore, mdDir, hIdx, notMarkdown>>

\* fmt.Fprintf(f, ...): the bytes reach the file, or the write fails and the
\* error Fprintf returns is dropped.
WriteFile(line, ok) ==
    /\ Fault(~ok)
    /\ fsLog' = Append(fsLog, FsCall("write", mdFile, ok))
    /\ fs' = IF ok THEN [fs EXCEPT !.files[mdFile] = @ \o line] ELSE fs

\* the heading line
MdHeading(ok) ==
    /\ pc = "md_heading"
    /\ WriteFile(HeadingLine(books[bookIdx]), ok)
    /\ hIdx' = 1
    /\ pc' = "md_highlight"
    /\ UNCHANGED <<exportErr, bookIdx, run, succeededBefore, mdDir, mdFile, notMarkdown>>

\* for _, h := range b.Highlights: skip a blank text, else write the quote line.
MdHighlight(ok) ==
    /\ pc = "md_highlight"
    /\ hIdx <= Len(books[bookIdx].Highlights)
    /\ LET text == TrimSpace(books[bookIdx].Highlights[hIdx].Text)
       IN  IF text = <<>>
           THEN ok /\ UNCHANGED <<fs, fsLog, faults>>
           ELSE WriteFile(QuoteLine(text), ok)
    /\ hIdx' = hIdx + 1
    /\ UNCHANGED <<pc, exportErr, bookIdx, run, succeededBefore, mdDir, mdFile, notMarkdown>>

\* f.Close()
MdClose(ok) ==
    /\ pc = "md_highlight"
    /\ hIdx > Len(books[bookIdx].Highlights)
    /\ Fault(~ok)
    /\ fsLog' = Append(fsLog, FsCall("close", mdFile, ok))
    /\ mdFile' = <<>>
    /\ IF ok
       THEN /\ bookIdx' = bookIdx + 1
            /\ pc' = "md_book"
            /\ UNCHANGED exportErr
       ELSE /\ exportErr' = CloseFileError(mdFile)
            /\ pc' = "export_ret"
            /\ UNCHANGED bookIdx
    /\ UNCHANGED <<fs, run, succeededBefore, mdDir, hIdx, notMarkdown>>

Text(t) == Highlight(t, <<"d", "1">>)

\* Books as fetchBooks returns them, titles ascending: "T" by "A", "a b", "a-b".
BookTA == [Title |-> <<"T">>, Author |-> <<"A">>, Highlights |-> <<Text(<<"x">>), Text(<<"y">>)>>]
BookSpaced == [Title |-> <<"a", " ", "b">>, Author |-> <<>>,
               Highlights |-> <<Text(<<"x", "\n", "z">>), Text(<<"\t">>), Text(<<" ", "y">>)>>]
BookDashed == [Title |-> <<"a", "-", "b">>, Author |-> <<>>, Highlights |-> <<Text(<<"y">>)>>]

MdBookLists == SubSeqs(<<BookTA, BookSpaced, BookDashed>>)

InitMarkdown ==
    /\ pc = "md_export"
    /\ kobo = [file |-> "ok", bookmarks |-> {}]
    /\ limit = 0
    /\ dbConn = "closed"
    /\ opens = 1
    /\ rows = <<>>
    /\ rowIdx = 0
    /\ grouped = EmptyMap
    /\ order = <<>>
    /\ books \in MdBookLists
    /\ fetchErr = ""
    /\ RegistryAtStartup
    /\ ExportIdle
    /\ NotionIdle
    /\ mdDir \in {<<>>, <<"o">>}
    /\ fs = [dirs |-> {}, files |-> EmptyMap]
    /\ mdFile = <<>>
    /\ hIdx = 0
    /\ fsLog = <<>>
    /\ MainIdle
    /\ SanitizeIdle

NextMarkdown ==
    \/ \E ok \in BOOLEAN : MdExport(ok)
    \/ \E ok \in BOOLEAN : MdCreate(ok)
    \/ \E ok \in BOOLEAN : MdHeading(ok)
    \/ \E ok \in BOOLEAN : MdHighlight(ok)
    \/ \E ok \in BOOLEAN : MdClose(ok)

SpecMarkdown == InitMarkdown /\ [][NextMarkdown]_vars

(*************************** sanitizeFilename alone *************************)

MaxLen == 3

\* Characters of a title: a letter, the dash, white space, and the nine
\* characters the replacer rewrites or drops.
TitleChars == {"a", "-", " ", "\t", "\n", "/", "\\", ":", "*", "?", "\"", "<", ">", "|"}

\* The strings over TitleChars of length up to n.
TitlesUpTo(n) == UNION { [1 .. k -> TitleChars] : k \in 0 .. n }

\* filename := sanitizeFilename(...), applied to the title and then to the
\* name it returned.
Sanitize ==
    /\ pc = "sanitize"
    /\ Len(sanRet) < 2
    /\ sanRet' = Append(sanRet, sanitizeFilename(IF sanRet = <<>> THEN sanArg ELSE sanRet[Len(sanRet)]))
    /\ UNCHANGED <<pc, sanArg, fetchVars, regVars, exportVars, notionVars, mdVars, mainVars>>

InitSanitize ==
    /\ pc = "sanitize"
    /\ FetchIdle
    /\ RegistryAtStartup
    /\ ExportIdle
    /\ NotionIdle
    /\ MarkdownIdle
    /\ MainIdle
    /\ sanArg \in TitlesUpTo(MaxLen)
    /\ sanRet = <<>>

NextSanitize == Sanitize

SpecSanitize == InitSanitize /\ [][NextSanitize]_vars

(****************************** the dispatcher *****************************)

previewLen == 100

UpperCase == <<"A", "B", "C", "D", "E", "F", "G", "H", "I", "J", "K", "L", "M",
               "N", "O", "P", "Q", "R", "S", "T", "U", "V", "W", "X", "Y", "Z">>

LowerCase == <<"a", "b", "c", "d", "e", "f", "g", "h", "i", "j", "k", "l", "m",
               "n", "o", "p", "q", "r", "s", "t", "u", "v", "w", "x", "y", "z">>

\* strings.ToLower
ToLower(s) ==
    [k \in 1 .. Len(s) |->
        IF \E j \in 1 .. 26 : UpperCase[j] = s[k]
        THEN LowerCase[CHOOSE j \in 1 .. 26 : UpperCase[j] = s[k]]
        ELSE s[k]]

\* The rune U+2026 (horizontal ellipsis), one character of a line.
Ellipsis == "U+2026"

\* truncateClean(s, max)
truncateClean(s, max) ==
    LET t == TrimSpace(NewlinesToSpaces(s))
    IN  IF Len(t) <= max THEN t ELSE SubSeq(t, 1, max) \o <<Ellipsis>>

\* "%2d"
Pad2(i) == IF i < 10 THEN <<" ">> \o Decimal(i) ELSE Decimal(i)

\* The lines printConsolePreview prints for one book.
PreviewOfBook(b) ==
    << <<"=", "=", "=", "=", "=", "=", "=", "=", "=", "=", "=", "=", "=", "=", "=", "=", "=", "=", "=", "=">>,
       IF b.Author # <<>> THEN b.Title \o <<" ", "(">> \o b.Author \o <<")">> ELSE b.Title >>
    \o [i \in 1 .. Len(b.Highlights) |->
           <<" ", " ">> \o Pad2(i) \o <<".", " ">> \o truncateClean(b.Highlights[i].Text, previewLen)]
    \o << <<>> >>

RECURSIVE printConsolePreview(_)
printConsolePreview(bs) ==
    IF bs = <<>> THEN <<>> ELSE PreviewOfBook(Head(bs)) \o printConsolePreview(Tail(bs))

ErrFormatRequired == <<"--format required unless --list-formats is used">>
ErrMarkdownDir == <<"--markdown-dir required for format markdown">>
ErrNotionFlags == <<"--notion-token and --notion-database required for format notion">>

\* fmt.Errorf("unknown format '%s' (available: %s)", ...)
ErrUnknownFormat(format) ==
    <<"u", "n", "k", "n", "o", "w", "n", " ", "f", "o", "r", "m", "a", "t", " ", "'">> \o format \o <<"'", " ", "(", "a", "v", "a", "i", "l", "a", "b", "l", "e", ":", " ">> \o Join(names.list, <<",", " ">>) \o <<")">>

\* main before app.Run: exporterNames := formats.ListFormatNames()
MainSetup ==
    /\ pc = "main"
    /\ \E l \in Orderings(DOMAIN formatRegistry) : names' = [list |-> l, at |-> Len(regLog)]
    /\ pc' = "main_action"
    /\ UNCHANGED <<formatRegistry, regLog, got, fetchVars, sanVars, exportVars, notionVars, mdVars, mainVars>>

\* The Action up to the call of fetchBooks.
MainAction ==
    LET format == ToLower(TrimSpace(flags.format))
        found == RegistryGet(formatRegistry, format)
    IN  /\ pc = "main_action"
        /\ IF flags.listFormats
           THEN /\ stdout' = stdout \o << <<"A", "v", "a", "i", "l", "a", "b", "l", "e", " ", "f", "o", "r", "m", "a", "t", "s", ":">> >>
                              \o [k \in 1 .. Len(names.list) |-> <<" ", " ", "-", " ">> \o names.list[k]]
                /\ pc' = "exit"
                /\ UNCHANGED <<mainErr, got>>
           ELSE IF format = <<>>
           THEN /\ mainErr' = ErrFormatRequired
                /\ pc' = "exit"
                /\ UNCHANGED <<stdout, got>>
           ELSE /\ got' = [name |-> format, f |-> found.f, ok |-> found.ok, at |-> Len(regLog)]
                /\ IF found.ok
                   THEN pc' = "fetch_stat" /\ UNCHANGED mainErr
                   ELSE pc' = "exit" /\ mainErr' = ErrUnknownFormat(format)
                /\ UNCHANGED stdout
        /\ UNCHANGED <<formatRegistry, regLog, names, fetchVars, sanVars, exportVars, notionVars, mdVars,
                       flags, stderr, exporter>>

\* fetchBooks has returned: return its error, or print the preview.
MainAfterFetch ==
    /\ pc = "fetch_ret"
    /\ IF fetchErr # ""
       THEN /\ mainErr' = <<fetchErr>>
            /\ pc' = "exit"
            /\ UNCHANGED stdout
       ELSE /\ stdout' = stdout \o printConsolePreview(books)
            /\ pc' = "main_build"
            /\ UNCHANGED mainErr
    /\ UNCHANGED <<fetchVars, sanVars, regVars, exportVars, notionVars, mdVars, flags, stderr, exporter>>

\* The Build function of the markdown factory.
BuildMarkdown ==
    LET dir == TrimSpace(flags.markdownDir)
    IN  IF dir = <<>>
        THEN /\ mainErr' = ErrMarkdownDir
             /\ pc' = "exit"
             /\ UNCHANGED <<exporter, mdDir, client>>
        ELSE /\ exporter' = "markdown"
             /\ mdDir' = dir
             /\ pc' = "md_export"
             /\ UNCHANGED <<mainErr, client>>

\* The Build function of the notion factory.
BuildNotion ==
    LET token == TrimSpace(flags.notionToken)
        dbid == TrimSpace(flags.notionDatabase)
    IN  IF token = <<>> \/ dbid = <<>>
        THEN /\ mainErr' = ErrNotionFlags
             /\ pc' = "exit"
             /\ UNCHANGED <<exporter, mdDir, client>>
        ELSE /\ exporter' = "notion"
             /\ client' = [titlePropName |-> "Title", resolvedTitle |-> FALSE]
             /\ pc' = "notion_export"
             /\ UNCHANGED <<mainErr, mdDir>>

\* exporter, err := factory.Build(resolver), then the call of exporter.Export
MainBuild ==
    /\ pc = "main_build"
    /\ IF got.f.Build = "markdown" THEN BuildMarkdown ELSE BuildNotion
    /\ UNCHANGED <<fetchVars, sanVars, regVars, exportVars, svc, pageID, blocks, batchAt, reqs,
                   fs, mdFile, hIdx, fsLog, flags, stdout, stderr>>

\* Export has returned: return its error, or report completion.
MainAfterExport ==
    /\ pc = "export_ret"
    /\ IF exportErr # <<>>
       THEN mainErr' = exportErr /\ UNCHANGED stderr
       ELSE /\ stderr' = Append(stderr, (IF exporter = "markdown" THEN NameMarkdown ELSE NameNotion)
                                         \o <<" ", "e", "x", "p", "o", "r", "t", " ", "c", "o", "m", "p", "l", "e", "t", "e">>)
            /\ UNCHANGED mainErr
    /\ pc' = "exit"
    /\ UNCHANGED <<fetchVars, sanVars, regVars, exportVars, notionVars, mdVars, flags, stdout, exporter>>

FormatFlagValues ==
    { <<>>, <<" ", "M", "a", "r", "k", "d", "o", "w", "n", " ">>, NameNotion, <<"p", "d", "f">> }

CommandLines ==
    { [listFormats |-> l, format |-> f, markdownDir |-> d, notionToken |-> t, notionDatabase |-> n]
      : l \in BOOLEAN, f \in FormatFlagValues, d \in {<<>>, <<" ">>, <<" ", "o">>},
        t \in {<<>>, <<"t">>}, n \in {<<" ">>, <<"d">>} }

\* Files for --kobo-db: unusable ones, an empty database, one with two books.
MainKoboFiles ==
    { [file |-> f, bookmarks |-> {}] : f \in {"missing", "notable", "ok"} }
    \cup { [file |-> "ok",
            bookmarks |-> { Bookmark(c, FirstPosition, k)
                            : c \in {x \in ContentTable : x.Attribution # NULL}, k \in TextDates }] }

InitMain ==
    /\ pc = "main"
    /\ kobo \in MainKoboFiles
    /\ limit \in {0, 1}
    /\ dbConn = "none"
    /\ opens = 0
    /\ rows = <<>>
    /\ rowIdx = 0
    /\ grouped = EmptyMap
    /\ order = <<>>
    /\ books = <<>>
    /\ fetchErr = ""
    /\ RegistryAtStartup
    /\ ExportIdle
    /\ client = [titlePropName |-> "Title", resolvedTitle |-> FALSE]
    /\ svc \in {d \in NotionDatabases : d.titleProp = "Name"}
    /\ pageID = 0
    /\ blocks = <<>>
    /\ batchAt = 0
    /\ reqs = <<>>
    /\ MarkdownIdle
    /\ flags \in CommandLines
    /\ stdout = <<>>
    /\ stderr = <<>>
    /\ exporter = "nil"
    /\ mainErr = <<>>
    /\ SanitizeIdle

NextMain ==
    \/ MainSetup
    \/ MainAction
    \/ NextFetch
    \/ MainAfterFetch
    \/ MainBuild
    \/ NextBatch
    \/ NextMarkdown
    \/ MainAfterExport

SpecMain == InitMain /\ [][NextMain]_vars

(********************** properties of fetchBooks ***************************)

\* The rows fetched and decoded so far, in fetch order.
Scanned == SelectSeq(SubSeq(rows, 1, rowIdx), ScanOK)

FetchReturnedBooks == pc = "fetch_ret" /\ fetchErr = ""

\* Index of the first row of s that carries title t.
FirstWithTitle(s, t) == CHOOSE k \in 1 .. Len(s) :
                            /\ s[k].Title = t
                            /\ \A l \in 1 .. (k - 1) : s[l].Title # t

RECURSIVE TotalHighlights(_)
TotalHighlights(bs) ==
    IF bs = <<>> THEN 0 ELSE Len(Head(bs).Highlights) + TotalHighlights(Tail(bs))

\* C1: fetchBooks returns exactly one Book per distinct title of the fetched
\* rows, each with the author of the first fetched row of that title, and the
\* Books are in strictly ascending title order.
C1_Grouping ==
    FetchReturnedBooks =>
        /\ {books[i].Title : i \in 1 .. Len(books)} = {Scanned[k].Title : k \in 1 .. Len(Scanned)}
        /\ \A i, j \in 1 .. Len(books) : i < j => StrLess(books[i].Title, books[j].Title)
        /\ \A i \in 1 .. Len(books) :
              books[i].Author = Scanned[FirstWithTitle(Scanned, books[i].Title)].Author

\* Two fetched rows share a title and differ in author, and there is a second book.
C1_Witness ==
    /\ FetchReturnedBooks
    /\ Len(books) >= 2
    /\ \E k, l \in 1 .. Len(Scanned) :
          k < l /\ Scanned[k].Title = Scanned[l].Title /\ Scanned[k].Author # Scanned[l].Author

\* The highlight a fetched row contributes.
HighlightOf(r) == [Text |-> r.Text, Date |-> r.DateCreated]

RowsOfTitle(t) == SelectSeq(Scanned, LAMBDA r : r.Title = t)

\* C2: each returned Book's Highlights are the fetched rows of its title in
\* fetch order, and that order is ascending document order.
C2_HighlightOrder ==
    FetchReturnedBooks =>
        /\ \A i \in 1 .. Len(books) :
              books[i].Highlights =
                  [k \in 1 .. Len(RowsOfTitle(books[i].Title)) |->
                      HighlightOf(RowsOfTitle(books[i].Title)[k])]
        /\ \A k, l \in 1 .. Len(Scanned) : k < l => ~RowLess(Scanned[l], Scanned[k])

\* A book with two different highlights, the later one strictly later in the document.
C2_Witness ==
    /\ FetchReturnedBooks
    /\ \E i \in 1 .. Len(books) :
          /\ Len(books[i].Highlights) >= 2
          /\ books[i].Highlights[1] # books[i].Highlights[2]
    /\ \E k, l \in 1 .. Len(Scanned) :
          Scanned[k].Title = Scanned[l].Title /\ RowLess(Scanned[k], Scanned[l])

QueryRan == pc = "fetch_rows" \/ FetchReturnedBooks

RowSet == {rows[k] : k \in 1 .. Len(rows)}

\* C10: a positive limit N makes the query return the first N qualifying rows
\* in query order (all of them if there are fewer), so the returned books hold
\* at most N highlights; with a limit of 0 (or below) every qualifying row is
\* returned.
C10_RowLimit ==
    QueryRan =>
        /\ RowSet \subseteq Joined(kobo.bookmarks)
        /\ Cardinality(RowSet) = Len(rows)
        /\ limit > 0 =>
              /\ Len(rows) = Min(limit, Cardinality(Joined(kobo.bookmarks)))
              /\ \A x \in Joined(kobo.bookmarks) \ RowSet :
                    \A k \in 1 .. Len(rows) : ~RowLess(x, rows[k])
              /\ FetchReturnedBooks => TotalHighlights(books) <= limit
        /\ limit <= 0 => RowSet = Joined(kobo.bookmarks)

\* The cap falls inside the result: a title of the database has no book.
C10_Witness ==
    /\ FetchReturnedBooks
    /\ limit > 0
    /\ limit < Cardinality(Joined(kobo.bookmarks))
    /\ TotalHighlights(books) = limit
    /\ \E x \in Joined(kobo.bookmarks) :
          ScanOK(x) /\ \A i \in 1 .. Len(books) : books[i].Title # x.Title

(********************** properties of the registry *************************)

\* The factory of the last call in log that registered under name, if any.
LastRegistered(log, name) ==
    LET at == {k \in 1 .. Len(log) : log[k].Name = name}
    IN  IF at = {} THEN [f |-> "nil", ok |-> FALSE]
        ELSE [f |-> log[CHOOSE k \in at : \A l \in at : l <= k], ok |-> TRUE]

\* C6: GetFormatFactory(name) returns the factory of the most recent
\* RegisterFormat call under exactly that name, not-found if there was none,
\* and ListFormatNames holds each registered name exactly once.
C6_RegistryOverride ==
    /\ got.ok = LastRegistered(SubSeq(regLog, 1, got.at), got.name).ok
    /\ got.f = LastRegistered(SubSeq(regLog, 1, got.at), got.name).f
    /\ \A n \in FormatNames :
          Cardinality({k \in 1 .. Len(names.list) : names.list[k] = n})
              = IF \E k \in 1 .. names.at : regLog[k].Name = n THEN 1 ELSE 0

\* A name registered twice with different factories is looked up and listed,
\* while the name that differs only in case was never registered.
C6_Witness ==
    /\ got.at = Len(regLog)
    /\ names.at = Len(regLog)
    /\ got.ok
    /\ \E k, l \in 1 .. Len(regLog) :
          k < l /\ regLog[k].Name = got.name /\ regLog[l].Name = got.name /\ regLog[k] # regLog[l]
    /\ got.name = NameMarkdown
    /\ \A k \in 1 .. Len(regLog) : regLog[k].Name # NameMarkdownCap
    /\ Len(names.list) = 2

(******************* properties of the Notion exporter *********************)

WritesOf(i) == {k \in 1 .. Len(reqs) : reqs[k].book = i /\ IsWrite(reqs[k])}

\* C3: a book whose page title the existence query matches gets no page-create
\* and no block-append request, EnsureBookPage returns nil for it and the loop
\* of Export moves on to the next book.
C3_ExistingPageSkipped ==
    \A k \in 1 .. Len(reqs) :
        (reqs[k].target = "query" /\ reqs[k].resp = "match") =>
            /\ WritesOf(reqs[k].book) = {}
            /\ bookIdx > reqs[k].book
            /\ k = Len(reqs) => exportErr = <<>>

\* The first book is matched and skipped, the second book has just got its page.
C3_Witness ==
    /\ Len(reqs) >= 3
    /\ \E k \in 1 .. Len(reqs) :
          reqs[k].target = "query" /\ reqs[k].resp = "match" /\ reqs[k].book = 1
    /\ reqs[Len(reqs)].target = "pages"
    /\ reqs[Len(reqs)].book = 2
    /\ reqs[Len(reqs)].resp = "ok"

\* C4: the service never holds two pages of one title, whatever runs failed on
\* the way, and once a run has succeeded later runs send no create and no
\* append request.
C4_IdempotentRerun ==
    /\ \A k, l \in 1 .. Len(svc.pages) : k # l => svc.pages[k].title # svc.pages[l].title
    /\ succeededBefore => \A k \in 1 .. Len(reqs) : ~IsWrite(reqs[k])

\* A run after a successful one has gone through two books that have pages.
C4_Witness ==
    /\ succeededBefore
    /\ pc = "export_ret"
    /\ exportErr = <<>>
    /\ Len(books) >= 2
    /\ Len(svc.pages) >= 2
    /\ Len(reqs) >= 2

\* The block-append requests of the current run for book i, in the order sent.
AppendsOf(i) == SelectSeq(reqs, LAMBDA r : r.book = i /\ r.target = "children")

RECURSIVE ConcatBatches(_)
ConcatBatches(rs) == IF rs = <<>> THEN <<>> ELSE Head(rs).batch \o ConcatBatches(Tail(rs))

\* bs starts the block sequence of hs: a quote per highlight, in order, with
\* a blank paragraph between consecutive quotes and none after the last.
StartsBlocksOf(bs, hs) ==
    /\ Len(bs) <= 2 * Len(hs) - 1 \/ bs = <<>>
    /\ \A j \in 1 .. Len(hs) :
          2 * j - 1 <= Len(bs) => bs[2 * j - 1] = [type |-> "quote", content |-> hs[j].Text]
    /\ \A j \in 1 .. Len(hs) :
          2 * j <= Len(bs) => bs[2 * j] = [type |-> "paragraph", content |-> <<>>]

\* The current run created the page of book i and EnsureBookPage returned nil.
PopulatedNow(i) ==
    /\ bookIdx > i
    /\ \E k \in 1 .. Len(reqs) : reqs[k].book = i /\ reqs[k].target = "pages" /\ reqs[k].resp = "ok"

\* C8: every block-append request carries 1 to 100 blocks, the batches sent are
\* consecutive pieces of the book's block sequence from its start, nothing is
\* sent after a failed batch, and on success they add up to the whole sequence.
C8_BatchCap ==
    \A i \in 1 .. Len(books) :
        LET sent == AppendsOf(i)
            cat == ConcatBatches(sent)
        IN  /\ \A k \in 1 .. Len(sent) :
                  /\ Len(sent[k].batch) >= 1
                  /\ Len(sent[k].batch) <= 100
                  /\ k < Len(sent) => sent[k].resp = "ok"
            /\ StartsBlocksOf(cat, books[i].Highlights)
            /\ PopulatedNow(i) => Len(cat) = 2 * Len(books[i].Highlights) - 1
            /\ (sent # <<>> /\ sent[Len(sent)].resp # "ok") =>
                  /\ reqs[Len(reqs)] = sent[Len(sent)]
                  /\ pc = "export_ret"
                  /\ exportErr # <<>>

\* The second of at least three batches failed and Export has returned.
C8_Witness ==
    /\ pc = "export_ret"
    /\ Len(books[1].Highlights) > 101
    /\ Len(AppendsOf(1)) = 2
    /\ AppendsOf(1)[2].resp = "error"
    /\ Len(AppendsOf(1)[1].batch) = 100

BatchSizes(i) == [k \in 1 .. Len(AppendsOf(i)) |-> Len(AppendsOf(i)[k].batch)]

\* C9 as stated: a book of 250 highlights is appended in exactly 3 requests,
\* none above 100 blocks.
C9_ThreeRequests ==
    \A i \in 1 .. Len(books) :
        (Len(books[i].Highlights) = 250 /\ PopulatedNow(i)) =>
            /\ Len(AppendsOf(i)) = 3
            /\ \A k \in 1 .. Len(AppendsOf(i)) : BatchSizes(i)[k] <= 100

\* C9: a book of 250 highlights makes 499 blocks (250 quotes, 249 blank
\* paragraphs), appended in exactly 5 requests of 100, 100, 100, 100 and 99.
C9_FiveRequests ==
    \A i \in 1 .. Len(books) :
        (Len(books[i].Highlights) = 250 /\ PopulatedNow(i)) =>
            BatchSizes(i) = <<100, 100, 100, 100, 99>>

\* A book of 250 highlights has been populated in full.
C9_Witness ==
    \E i \in 1 .. Len(books) :
        /\ Len(books[i].Highlights) = 250
        /\ PopulatedNow(i)
        /\ Len(svc.pages[1].blocks) = 499

\* The create requests (POST /v1/pages) of the run for book i, in order.
CreatesOf(i) == SelectSeq(reqs, LAMBDA r : r.book = i /\ r.target = "pages")

\* The create step of book i is over: a request was sent and no retry is due.
CreateSettled(i) == CreatesOf(i) # <<>> /\ ~(pc = "n_retry" /\ bookIdx = i)

\* The last create request of book i was not answered with a usable page.
CreateFailed(i) == CreatesOf(i)[Len(CreatesOf(i))].resp # "ok"

\* The retry rule, with the set of first responses that trigger the retry.
RetryRule(triggers) ==
    \A i \in 1 .. Len(books) :
        CreateSettled(i) =>
            LET cr == CreatesOf(i)
            IN  /\ Len(cr) <= 2
                /\ Len(cr) = 2 <=> (cr[1].resp \in triggers /\ books[i].Author # <<>>)
                /\ cr[1].withAuthor = (books[i].Author # <<>>)
                /\ Len(cr) = 2 => ~cr[2].withAuthor
                /\ CreateFailed(i) => (pc = "export_ret" /\ exportErr # <<>> /\ bookIdx = i)

\* C14 as stated: the create request is retried, once and without Author,
\* exactly when the first response is a client error (HTTP 4xx) and the author
\* is non-empty.
C14_RetryOnClientError == RetryRule({"400", "401"})

\* C14, amended: for each book the create request is retried if and only if
\* the first response has status 400 and the author is non-empty; the retry
\* happens once and omits Author; no retry on a transport error or timeout, on
\* any other status (401 and 500 included) or for an empty author; at most two
\* create requests per book; a failure left after the fallback ends the run
\* with an error for that book.
C14_RetryOn400 == RetryRule({"400"})

\* A book with an author whose first create request was answered 400 and
\* whose retry without Author made the page.
C14_Witness ==
    \E i \in 1 .. Len(books) :
        /\ CreateSettled(i)
        /\ Len(CreatesOf(i)) = 2
        /\ CreatesOf(i)[1].resp = "400"
        /\ CreatesOf(i)[1].withAuthor
        /\ CreatesOf(i)[2].resp = "ok"

\* The schema-fetch requests (GET database) of the run, in order.
SchemaFetches == SelectSeq(reqs, LAMBDA r : r.target = "database")

\* The query and create requests of the run for book i.
TitledRequestsOf(i) == SelectSeq(reqs, LAMBDA r : r.book = i /\ r.target \in {"query", "pages"})

\* C15 as stated: within one run, whatever the service answers, the schema
\* fetch is issued at most once, during the first EnsureBookPage call; every
\* later book issues none and uses the title property name the first call
\* left in both the existence filter and the create request.
C15_SchemaFetchOnce ==
    /\ Len(SchemaFetches) <= 1
    /\ \A k \in 1 .. Len(SchemaFetches) : SchemaFetches[k].book = 1
    /\ \A i \in 2 .. Len(books) : \A k \in 1 .. Len(TitledRequestsOf(i)) :
          TitledRequestsOf(1) # <<>> => TitledRequestsOf(i)[k].prop = TitledRequestsOf(1)[1].prop

\* What holds of the discovery: once a schema fetch has been answered, the run
\* issues no further one, and a book sends at most two.
SchemaFetchUntilAnswered ==
    /\ \A k \in 1 .. Len(SchemaFetches) : SchemaFetches[k].resp = "ok" => k = Len(SchemaFetches)
    /\ \A i \in 1 .. Len(books) :
          Len(SelectSeq(SchemaFetches, LAMBDA r : r.book = i)) <= 2

\* No two books of the run have the same page title.
DistinctPageTitles ==
    \A i, j \in 1 .. Len(books) : i # j => NotionTitle(books[i]) # NotionTitle(books[j])

\* A page of the database with the title of book b holds a quote block for
\* every highlight of b.
HasCompletePage(b) ==
    \E k \in 1 .. Len(svc.pages) :
        /\ svc.pages[k].title = NotionTitle(b)
        /\ \A h \in 1 .. Len(b.Highlights) :
              \E j \in 1 .. Len(svc.pages[k].blocks) :
                  svc.pages[k].blocks[j] = QuoteBlock(b.Highlights[h].Text)

\* C18 as stated: after any sequence of runs on the same books whose last run
\* returned success, every book has a page that holds all of its highlight
\* quote blocks, also when an earlier run failed after it had created the page.
C18_PagesComplete ==
    (pc = "export_ret" /\ exportErr = <<>> /\ DistinctPageTitles) =>
        \A i \in 1 .. Len(books) : HasCompletePage(books[i])

\* What holds: the first run on an empty database, when it returns success,
\* leaves a complete page for every book.
FirstCleanRunComplete ==
    (pc = "export_ret" /\ exportErr = <<>> /\ DistinctPageTitles /\ run = 1) =>
        \A i \in 1 .. Len(books) : HasCompletePage(books[i])

(************************ properties of the exporters **********************)

\* t occurs in msg
Contains(msg, t) == \E k \in 0 .. (Len(msg) - Len(t)) : SubSeq(msg, k + 1, k + Len(t)) = t

\* Export has returned an error raised while it processed book bookIdx.
ExportFailedAtBook ==
    /\ pc = "export_ret"
    /\ exportErr # <<>>
    /\ bookIdx \in 1 .. Len(books)

\* C7 as stated: when processing of book i fails, the error of Export names
\* the title of book i, no file-system call and no HTTP request is made for a
\* later book, and the books before i keep the output already produced.
C7_ShortCircuit ==
    ExportFailedAtBook =>
        /\ Contains(exportErr, books[bookIdx].Title)
        /\ \A k \in 1 .. Len(fsLog) : fsLog[k].book <= bookIdx
        /\ \A k \in 1 .. Len(reqs) : reqs[k].book <= bookIdx
        /\ \A k \in 1 .. Len(fsLog) :
              \A j \in 1 .. (fsLog[k].book - 1) : fsLog[k].path # BookPath(books[j])

(******************* properties of the Markdown exporter *******************)

\* The quote lines a highlight list renders to: one per highlight whose
\* trimmed text is non-blank, in order.
RECURSIVE ExpectedQuotes(_)
ExpectedQuotes(hs) ==
    IF hs = <<>> THEN <<>>
    ELSE LET text == TrimSpace(Head(hs).Text)
         IN  (IF text = <<>> THEN <<>>
              ELSE <<">", " ">> \o [k \in 1 .. Len(text) |-> IF text[k] = "\n" THEN " " ELSE text[k]]
                   \o <<"\n", "\n">>)
             \o ExpectedQuotes(Tail(hs))

\* The file content the format prescribes for a book.
ExpectedFile(b) ==
    <<"#", " ">> \o b.Title
    \o (IF b.Author = <<>> THEN <<>> ELSE <<" ", "(">> \o b.Author \o <<")">>)
    \o <<"\n", "\n">> \o ExpectedQuotes(b.Highlights)

\* Every file-system call made for book i succeeded.
CallsSucceeded(i) == \A k \in 1 .. Len(fsLog) : fsLog[k].book = i => fsLog[k].ok

\* The last file-system call closed a book's file, and every call for that
\* book succeeded.
JustWritten ==
    /\ fsLog # <<>>
    /\ fsLog[Len(fsLog)].op = "close"
    /\ CallsSucceeded(fsLog[Len(fsLog)].book)

DistinctTitles == \A i, j \in 1 .. Len(books) : i # j => books[i].Title # books[j].Title

\* Export has returned nil after file-system calls that all succeeded.
ExportedAll ==
    /\ pc = "export_ret"
    /\ exportErr = <<>>
    /\ fsLog # <<>>
    /\ \A k \in 1 .. Len(fsLog) : fsLog[k].ok

\* C11 as stated: after a successful Export of k books with pairwise distinct
\* titles into an empty directory, the directory holds exactly k files, and
\* each book's file holds that book's heading and highlights.
C11_OneFilePerBook ==
    (ExportedAll /\ DistinctTitles) =>
        /\ Cardinality(DOMAIN fs.files) = Len(books)
        /\ \A i \in 1 .. Len(books) :
              /\ BookPath(books[i]) \in DOMAIN fs.files
              /\ fs.files[BookPath(books[i])] = ExpectedFile(books[i])

\* C12: when a book's file has just been closed and every call for the book
\* succeeded, the file is the heading line ("# Title (Author)", or "# Title"
\* for an empty author), a blank line, and for each highlight in order whose
\* trimmed text is non-blank the line "> text" with newlines replaced by
\* spaces and a blank line; Book{T, A, [x, y]} yields "# T (A)\n\n> x\n\n> y\n\n".
C12_FileContent ==
    JustWritten =>
        LET b == books[fsLog[Len(fsLog)].book]
            file == fs.files[fsLog[Len(fsLog)].path]
        IN  /\ file = ExpectedFile(b)
            /\ b = BookTA => file = <<"#", " ", "T", " ", "(", "A", ")", "\n", "\n", ">", " ", "x", "\n", "\n", ">", " ", "y", "\n", "\n">>
            /\ b = BookDashed => file = <<"#", " ", "a", "-", "b", "\n", "\n", ">", " ", "y", "\n", "\n">>

\* A book with a newline inside a highlight, a blank highlight and a
\* highlight with leading space has just been written.
C12_Witness ==
    /\ JustWritten
    /\ books[fsLog[Len(fsLog)].book] = BookSpaced
    /\ fs.files[fsLog[Len(fsLog)].path] = <<"#", " ", "a", " ", "b", "\n", "\n", ">", " ", "x", " ", "z", "\n", "\n", ">", " ", "y", "\n", "\n">>

\* The characters a file name must not contain.
Forbidden == {"/", "\\", ":", "*", "?", "\"", "<", ">", "|"}

\* s is empty or consists of white space and characters the replacer drops.
ReducesToEmpty(s) == \A k \in 1 .. Len(s) : IsSpace(s[k]) \/ s[k] \in {"?", "\"", "<", ">"}

\* C13: for every string s, sanitizeFilename(s) is non-empty, contains none
\* of / \ : * ? " < > | and no white space, is "book" when s is empty or
\* reduces to empty, and sanitizing it again returns it unchanged.
C13_Sanitizer ==
    /\ \A k \in 1 .. Len(sanRet) :
          /\ sanRet[k] # <<>>
          /\ \A j \in 1 .. Len(sanRet[k]) : sanRet[k][j] \notin Forbidden /\ ~IsSpace(sanRet[k][j])
    /\ (Len(sanRet) >= 1 /\ ReducesToEmpty(sanArg)) => sanRet[1] = <<"b", "o", "o", "k">>
    /\ Len(sanRet) = 2 => sanRet[2] = sanRet[1]

\* A title with a rewritten character, inner white space and a dropped
\* character has been sanitized twice.
C13_Witness ==
    /\ sanArg = <<"|", " ", "?">>
    /\ Len(sanRet) = 2
    /\ sanRet[1] = <<"-">>

\* Every failed call of one of the given kinds is fatal: no call for a later
\* book follows it, and Export does not return nil.
FailuresFatal(ops) ==
    \A k \in 1 .. Len(fsLog) :
        (fsLog[k].op \in ops /\ ~fsLog[k].ok) =>
            /\ \A j \in (k + 1) .. Len(fsLog) : fsLog[j].book <= fsLog[k].book
            /\ pc = "export_ret" => exportErr # <<>>

\* C16 as stated: if creating a book's file, writing its heading or a
\* highlight line, or closing it fails, no later book is processed and Export
\* returns an error, never success.
C16_WriteFailuresFatal == FailuresFatal({"create", "write", "close"})

\* What holds: a failed os.MkdirAll, os.Create or f.Close is fatal, and it is
\* the last call of the run.
CreateCloseFailuresFatal ==
    /\ FailuresFatal({"mkdir", "create", "close"})
    /\ \A k \in 1 .. Len(fsLog) :
          (fsLog[k].op \in {"mkdir", "create", "close"} /\ ~fsLog[k].ok) => k = Len(fsLog)

(*********************** properties of the dispatcher **********************)

\* factory.Build has returned a configuration error and the Action has returned it.
ConfigErrorRaised == pc = "exit" /\ mainErr \in {ErrMarkdownDir, ErrNotionFlags}

\* The required setting of the selected format is missing or blank.
Misconfigured ==
    LET format == ToLower(TrimSpace(flags.format))
    IN  \/ format = NameMarkdown /\ TrimSpace(flags.markdownDir) = <<>>
        \/ format = NameNotion /\ (TrimSpace(flags.notionToken) = <<>>
                                   \/ TrimSpace(flags.notionDatabase) = <<>>)

ExportNeverCalled == exporter = "nil" /\ bookIdx = 0 /\ fsLog = <<>> /\ reqs = <<>>

\* C5 as stated: when the configuration error of factory.Build is raised, the
\* run has created no directory, written no file, issued no HTTP request and
\* printed no book preview, and a misconfigured run never calls Export.
C5_FailFast ==
    /\ ConfigErrorRaised =>
          /\ fs.dirs = {}
          /\ DOMAIN fs.files = {}
          /\ reqs = <<>>
          /\ stdout = <<>>
    /\ (Misconfigured /\ ~flags.listFormats) => ExportNeverCalled

\* What the dispatcher does guarantee on a configuration error: no directory,
\* no file, no HTTP request, no call of Export.
ConfigErrorLeavesNoExport ==
    /\ ConfigErrorRaised => (fs.dirs = {} /\ DOMAIN fs.files = {} /\ ExportNeverCalled)
    /\ (Misconfigured /\ ~flags.listFormats) => ExportNeverCalled

\* Export has been called: the exporter is built and its loop or its checks ran.
ExportCalled == exporter # "nil" /\ pc \notin {"md_export", "notion_export"}

\* C17: in every run the database is opened at most once; the connection is
\* open only inside fetchBooks, so on every path out of it (success, missing
\* table, schema-inspection failure, query failure, row-iteration error) it is
\* closed before factory.Build or Export; Export never runs while the
\* connection is open, and never runs if fetchBooks returned an error.
C17_ConnectionScope ==
    /\ opens <= 1
    /\ dbConn = "open" => pc \in {"fetch_schema", "fetch_query", "fetch_rows"}
    /\ dbConn = "open" => (exporter = "nil" /\ ExportNeverCalled)
    /\ fetchErr # "" => (pc \in {"fetch_ret", "exit"} /\ exporter = "nil" /\ ExportNeverCalled)
    /\ (pc = "exit" /\ fetchErr # "") => mainErr = <<fetchErr>>

\* Export has run to its end on books read through a connection that was
\* opened once and is closed.
C17_Witness ==
    /\ pc = "export_ret"
    /\ ExportCalled
    /\ books # <<>>
    /\ opens = 1
    /\ dbConn = "closed"

\* fetchBooks failed after the connection was opened, and the run has ended.
C17_ErrorPathReached ==
    /\ pc = "exit"
    /\ fetchErr \in {"required table 'Bookmark' not found", "query failed", "row iteration error"}
    /\ opens = 1
    /\ dbConn = "closed"

====
